---- MODULE Spec2Model ----
(***************************************************************************)
(* A model of the request dispatcher of src/src/index.ts: class App with   *)
(* its route registry (#routes), its middleware pipeline (#middlewares),   *)
(* its state, the registration methods, withState and the asynchronous     *)
(* fetch.  JavaScript runs one task at a time and a task runs until it     *)
(* awaits, so every action below is one run-to-suspension segment.         *)
(*                                                                         *)
(* Objects that the code shares by reference (the Map of routes, the array *)
(* of middleware, the state object, the per-request data object) live in   *)
(* heaps indexed by object identity; an App and a Context hold identities. *)
(* Strings whose characters matter (paths, request targets) are sequences  *)
(* of one-character strings.                                               *)
(***************************************************************************)
EXTENDS Integers, Sequences, FiniteSets, TLC

\* ------------------------------------------------------------------ bounds

\* Applications alive at once: the constructed one plus withState results.
MaxApps == 3
\* Calls of fetch in progress at once.
MaxReqs == 2
\* Length of the middleware pipeline.
MaxMws == 2
\* Largest value the middleware inc counts the field n of a state up to.
MaxN == 2

\* ----------------------------------------------------------- the host's inputs

\* Handlers the host registers (type Handler, lines 10-12), by behaviour:
\*   h1 returns its Response synchronously (like lines 145-150),
\*   h2 awaits once before it returns its Response (like lines 162-167),
\*   hx awaits once and then fails.
Handlers == {"h1", "h2", "hx"}

\* Middleware the host registers (type Middleware, lines 13-15), by behaviour:
\*   tag  writes c.data.t synchronously (like lines 140-143),
\*   wait awaits once and then completes,
\*   reg  awaits once and then registers h2 for GET /x on the App,
\*   inc  reads c.state.n, awaits once, then writes c.state.n = read + 1,
\*   late awaits once and then fails,
\*   boom throws.
Middlewares == {"tag", "wait", "reg", "inc", "late", "boom"}

PRoot == <<"/">>
PX == <<"/", "x">>

\* Request targets (the part of req.url after the origin).
Urls == {PRoot, PX, <<"/", "x", "?", "q">>}

\* The methods get, post, put, delete and all register under.
RegMethods == {"GET", "POST", "PUT", "DELETE"}
\* Request methods.
ReqMethods == RegMethods \cup {"PATCH"}

Reqs == 1..MaxReqs
AppIds == 1..MaxApps
\* A state object the host passes to withState; the objects 1..MaxApps are the
\* {} that each constructor creates (line 49).
HostState == MaxApps + 1
StateIds == 1..HostState
\* Data object 0 is never allocated by the code.
DataIds == 0..MaxReqs

VARIABLES
    apps,       \* the App instances, in order of creation
    routes,     \* heap of route Maps: path -> (method -> handler)
    mws,        \* heap of middleware arrays
    stateHeap,  \* heap of state objects: the value of their field n
    dataHeap,   \* heap of per-request data objects: the value of their field t
    rq,         \* per call of fetch: its position, its Context, its result
    \* history of the host's calls, which no action reads to decide what it does:
    registered, \* <<path, method>> -> the handler of the latest registration
    used,       \* the middleware passed to use, in call order
    given       \* per App: the App it was rebound from and the state passed

vars == <<apps, routes, mws, stateHeap, dataHeap, rq, registered, used, given>>

\* ------------------------------------------------------------------ values

EmptyMap == [x \in {} |-> x]

\* new Response(body, init): status, headers and body.
NoResponse == [status |-> 0, headers |-> "", text |-> "", t |-> 0, n |-> 0]
\* NotFound without its status: new Response("Not Found").
NotFoundOk == [status |-> 200, headers |-> "", text |-> "Not Found", t |-> 0, n |-> 0]

\* line 115
NotFound == [status |-> 404, headers |-> "", text |-> "Not Found", t |-> 0, n |-> 0]

\* The Response handler h builds from what it sees in its Context.
HandlerResponse(h, t, n) ==
    [status |-> IF h = "h1" THEN 200 ELSE 201,
     headers |-> IF h = "h1" THEN "text/plain" ELSE "application/json",
     text |-> h, t |-> t, n |-> n]

\* Paths and targets that differ from /x in letter case, by a trailing slash, by
\* a query.
PUpper == <<"/", "X">>
PXSlash == <<"/", "x", "/">>
PXQuery == <<"/", "x", "?", "q">>
MatchUrls == {PX, PUpper, PXSlash, PXQuery}

\* Methods a Request is created with (the method member of its init, line 192).
MatchMethods == {"GET", "get", "Get", "patch"}

\* The method in upper case.
UpperCase(m) ==
    CASE m \in {"get", "Get"} -> "GET"
      [] m = "patch" -> "PATCH"
      [] OTHER -> m

\* The methods a Request stores in upper case whatever their case in its init.
NormalizedMethods == {"DELETE", "GET", "HEAD", "OPTIONS", "POST", "PUT"}

\* req.method (line 107) of a Request created with method m (line 192).
RequestMethod(m) ==
    IF UpperCase(m) \in NormalizedMethods THEN UpperCase(m) ELSE m

\* The whole target taken for the path.
PathnameRaw(url) == url

\* url.pathname (lines 105-106): the target up to its query or fragment.
RECURSIVE PathPrefix(_)
PathPrefix(s) ==
    IF s = <<>> \/ Head(s) \in {"?", "#"} THEN <<>>
    ELSE <<Head(s)>> \o PathPrefix(Tail(s))

Pathname(url) == IF PathPrefix(url) = <<>> THEN PRoot ELSE PathPrefix(url)

\* ------------------------------------------------------------ the registry

\* #addRoute that stores a new inner Map for the path at every call.
AddRouteClear(rt, method, path, handler) ==
    (path :> (method :> handler)) @@ rt

\* #addRoute that keeps a handler already stored for the pair.
AddRouteKeep(rt, method, path, handler) ==
    LET rt1 == IF path \in DOMAIN rt THEN rt ELSE (path :> EmptyMap) @@ rt
    IN [rt1 EXCEPT ![path] = rt1[path] @@ (method :> handler)]

\* #addRoute (lines 86-91) on the Map rt.
AddRoute(rt, method, path, handler) ==
    LET rt1 == IF path \in DOMAIN rt THEN rt ELSE (path :> EmptyMap) @@ rt
    IN [rt1 EXCEPT ![path] = (method :> handler) @@ rt1[path]]

\* all without its fourth call of #addRoute.
AddAllNoDelete(rt, path, handler) ==
    AddRoute(AddRoute(AddRoute(rt, "GET", path, handler),
                      "POST", path, handler),
             "PUT", path, handler)

\* all cut short after its first two calls of #addRoute.
AddAllFirstTwo(rt, path, handler) ==
    AddRoute(AddRoute(rt, "GET", path, handler), "POST", path, handler)

\* all (lines 79-84): four calls of #addRoute.
AddAll(rt, path, handler) ==
    AddRoute(AddRoute(AddRoute(AddRoute(rt, "GET", path, handler),
                               "POST", path, handler),
                      "PUT", path, handler),
             "DELETE", path, handler)

\* route?.has(method) (lines 109-110)
HasRoute(rt, path, method) == path \in DOMAIN rt /\ method \in DOMAIN rt[path]

\* route.get of some method the path has, whatever the request's method.
GetRouteAnyMethod(rt, path, method) ==
    rt[path][CHOOSE m \in DOMAIN rt[path] : TRUE]

\* route.get(method)! (line 111)
GetRoute(rt, path, method) == rt[path][method]

\* The handler of the latest registration of <<path, method>>, "" when none.
Registered(path, method) ==
    IF <<path, method>> \in DOMAIN registered THEN registered[<<path, method>>] ELSE ""

\* ------------------------------------------------------------ applications

\* new App() (lines 46-49): a fresh Map, a fresh array and a fresh {} of its own.
NewApp(id) == [routes |-> id, middlewares |-> id, state |-> id]

\* withState without line 53: the new App keeps the Map of its own.
WithStateOwnRoutes(this, id, state) ==
    [NewApp(id) EXCEPT !.middlewares = this.middlewares,
                       !.state = state]

\* withState with line 55 reading this.state instead of its argument.
WithStateKeepState(this, id, state) ==
    [NewApp(id) EXCEPT !.routes = this.routes,
                       !.middlewares = this.middlewares,
                       !.state = this.state]

\* withState (lines 51-57) on the App this; id is the identity of the new App.
WithStateApp(this, id, state) ==
    [NewApp(id) EXCEPT !.routes = this.routes,
                       !.middlewares = this.middlewares,
                       !.state = state]

\* --------------------------------------------------------------- requests

\* A request slot before its call of fetch.  pc is where fetch stands ("mw": at
\* the await of line 102, "handler": at the await of line 112), status the
\* awaited promise.  had, looked, want, due, ran, fin and produced are history:
\* the length of used at the call, whether the route lookup took place, the
\* handler the registrations call for and the length of used at the lookup, the
\* middleware started, how many of them settled, and the Response that handler
\* builds.
Idle ==
    [pc |-> "idle", app |-> 0, url |-> <<>>, method |-> "", data |-> 0,
     state |-> 0, idx |-> 0, status |-> "", local |-> 0, handler |-> "",
     outcome |-> "", resp |-> NoResponse,
     had |-> 0, looked |-> FALSE, want |-> "", due |-> 0, ran |-> <<>>,
     fin |-> 0, produced |-> NoResponse]

\* One data object for all calls.
NewDataShared(r) == 0

\* data: {} (line 96): a new object per call.
NewData(r) == r

\* A state object that is not the App's.
ContextStateOwn(this) == HostState

\* state: this.state (line 97)
ContextState(this) == this.state

Init ==
    /\ apps = <<NewApp(1)>>
    /\ routes = [i \in AppIds |-> EmptyMap]
    /\ mws = [i \in AppIds |-> <<>>]
    /\ stateHeap = [s \in StateIds |-> 0]
    /\ dataHeap = [d \in DataIds |-> 0]
    /\ rq = [r \in Reqs |-> Idle]
    /\ registered = EmptyMap
    /\ used = <<>>
    /\ given = <<[from |-> 0, state |-> 1]>>

\* ---------------------------------------------------------- registration

\* use (lines 59-61)
Use(a, mw) ==
    /\ a \in DOMAIN apps
    /\ Len(mws[apps[a].middlewares]) < MaxMws
    /\ Len(used) < MaxMws
    /\ mws' = [mws EXCEPT ![apps[a].middlewares] = Append(@, mw)]
    /\ used' = Append(used, mw)
    /\ UNCHANGED <<apps, routes, stateHeap, dataHeap, rq, registered, given>>

\* A call of #addRoute by get, post, put or delete.
Register(a, method, path, handler) ==
    /\ a \in DOMAIN apps
    /\ routes' = [routes EXCEPT ![apps[a].routes] = AddRoute(@, method, path, handler)]
    /\ registered' = (<<path, method>> :> handler) @@ registered
    /\ UNCHANGED <<apps, mws, stateHeap, dataHeap, rq, used, given>>

\* get (lines 63-65)
Get(a, path, handler) == Register(a, "GET", path, handler)
\* post (lines 67-69)
Post(a, path, handler) == Register(a, "POST", path, handler)
\* put (lines 71-73)
Put(a, path, handler) == Register(a, "PUT", path, handler)
\* delete (lines 75-77)
Delete(a, path, handler) == Register(a, "DELETE", path, handler)

\* all (lines 79-84)
All(a, path, handler) ==
    /\ a \in DOMAIN apps
    /\ routes' = [routes EXCEPT ![apps[a].routes] = AddAll(@, path, handler)]
    /\ registered' = [k \in {<<path, m>> : m \in RegMethods} |-> handler] @@ registered
    /\ UNCHANGED <<apps, mws, stateHeap, dataHeap, rq, used, given>>

\* withState (lines 51-57); state is the object the host passes.
WithState(a, state) ==
    /\ a \in DOMAIN apps
    /\ Len(apps) < MaxApps
    /\ apps' = Append(apps, WithStateApp(apps[a], Len(apps) + 1, state))
    /\ given' = Append(given, [from |-> a, state |-> state])
    /\ UNCHANGED <<routes, mws, stateHeap, dataHeap, rq, registered, used>>

\* The host writes a field of an App's state (like line 138).
HostWrite(a) ==
    /\ a \in DOMAIN apps
    /\ stateHeap' = [stateHeap EXCEPT ![apps[a].state] = 0]
    /\ UNCHANGED <<apps, routes, mws, dataHeap, rq, registered, used, given>>

\* The host assigns the public field state of an App (declared at line 49, and
\* assigned like this by line 55).
HostAssign(a, state) ==
    /\ a \in DOMAIN apps
    /\ apps' = [apps EXCEPT ![a].state = state]
    /\ UNCHANGED <<routes, mws, stateHeap, dataHeap, rq, registered, used, given>>

\* ------------------------------------------------------------------ fetch

\* The call mw(c) of line 102 for request r with Context q on the data heap D, up
\* to where mw returns or first awaits.
CallMw(mw, r, q, D) ==
    [data |-> IF mw = "tag" THEN [D EXCEPT ![q.data] = r] ELSE D,
     local |-> IF mw = "inc" THEN stateHeap[q.state] ELSE 0,
     status |-> CASE mw = "tag" -> "fulfilled"
                  [] mw \in {"wait", "reg", "inc", "late"} -> "pending"
                  [] OTHER -> "rejected"]

\* AfterMw with the throw of a middleware caught and ignored.
AfterMwSwallow(q, i, local, status) ==
    [q EXCEPT !.idx = i,
              !.local = local,
              !.status = IF status = "rejected" THEN "fulfilled" ELSE status,
              !.pc = "mw",
              !.outcome = ""]

\* AfterMw that leaves fetch pending for ever when the middleware fails.
AfterMwHang(q, i, local, status) ==
    [q EXCEPT !.idx = i, !.local = local, !.status = status, !.pc = "mw",
              !.outcome = ""]

\* fetch after the call mw(c) of line 102 left its promise in status: a throw
\* ends fetch with the failure, anything else is awaited.
AfterMw(q, i, local, status) ==
    [q EXCEPT !.idx = i,
              !.local = local,
              !.status = status,
              !.pc = IF status = "rejected" THEN "done" ELSE "mw",
              !.outcome = IF status = "rejected" THEN "error" ELSE ""]

\* AfterLookup with the handler called on a Context of its own, with an empty
\* data and an unwritten state.
AfterLookupFresh(q, i, rt, t, n) ==
    IF HasRoute(rt, Pathname(q.url), RequestMethod(q.method))
    THEN LET h == GetRoute(rt, Pathname(q.url), RequestMethod(q.method))
         IN IF h = "h1"
            THEN [q EXCEPT !.idx = i, !.handler = h, !.status = "fulfilled",
                           !.pc = "done", !.outcome = "response",
                           !.resp = HandlerResponse(h, 0, 0)]
            ELSE [q EXCEPT !.idx = i, !.handler = h, !.status = "pending",
                           !.pc = "handler"]
    ELSE [q EXCEPT !.idx = i, !.pc = "done", !.outcome = "response",
                   !.resp = NotFound]

\* fetch from line 105 on the Map rt: the route lookup, then the call of the
\* handler up to its return or first await, or the 404; t and n are what the
\* handler sees in c.data and c.state.
AfterLookup(q, i, rt, t, n) ==
    IF HasRoute(rt, Pathname(q.url), RequestMethod(q.method))
    THEN LET h == GetRoute(rt, Pathname(q.url), RequestMethod(q.method))
         IN IF h = "h1"
            THEN [q EXCEPT !.idx = i, !.handler = h, !.status = "fulfilled",
                           !.pc = "done", !.outcome = "response",
                           !.resp = HandlerResponse(h, t, n)]
            ELSE [q EXCEPT !.idx = i, !.handler = h, !.status = "pending",
                           !.pc = "handler"]
    ELSE [q EXCEPT !.idx = i, !.pc = "done", !.outcome = "response",
                   !.resp = NotFound]

\* One turn of the loop (lines 101-102): the call of the middleware at index i.
AdvanceMw(r, q, i, D) ==
    LET mw == mws[apps[q.app].middlewares][i]
        out == CallMw(mw, r, q, D)
    IN /\ dataHeap' = out.data
       /\ rq' = [rq EXCEPT ![r] =
             [AfterMw(q, i, out.local, out.status) EXCEPT
                 !.ran = Append(@, mw),
                 !.fin = IF out.status = "pending" THEN @ ELSE @ + 1]]

\* fetch past the loop (lines 105-115).
AdvanceLookup(r, q, i, D) ==
    /\ dataHeap' = D
    /\ rq' = [rq EXCEPT ![r] =
          [AfterLookup(q, i, routes[apps[q.app].routes], D[q.data],
                       stateHeap[q.state]) EXCEPT
              !.looked = TRUE,
              !.want = Registered(Pathname(q.url), RequestMethod(q.method)),
              !.due = Len(used),
              !.produced =
                  IF Registered(Pathname(q.url), RequestMethod(q.method)) = "h1"
                  THEN HandlerResponse("h1", D[q.data], stateHeap[q.state])
                  ELSE NoResponse]]

\* Advance with the route looked up first and the loop skipped when none matches.
AdvanceRouteFirst(r, q, i, D) ==
    IF /\ i <= Len(mws[apps[q.app].middlewares])
       /\ HasRoute(routes[apps[q.app].routes], Pathname(q.url), RequestMethod(q.method))
    THEN AdvanceMw(r, q, i, D)
    ELSE AdvanceLookup(r, q, i, D)

\* Advance that goes on to the route lookup before the last middleware.
AdvanceBeforeLast(r, q, i, D) ==
    IF i < Len(mws[apps[q.app].middlewares])
    THEN AdvanceMw(r, q, i, D)
    ELSE AdvanceLookup(r, q, i, D)

\* Advance over the middleware the array held when fetch was called.
AdvanceSnapshot(r, q, i, D) ==
    IF i <= q.had
    THEN AdvanceMw(r, q, i, D)
    ELSE AdvanceLookup(r, q, i, D)

\* fetch from the loop test of line 101 with the iterator at index i (from 1), up
\* to the next await (lines 102, 112) or the end of fetch; q is the request so
\* far and D the data heap.  The iterator reads the array's length at each test.
Advance(r, q, i, D) ==
    IF i <= Len(mws[apps[q.app].middlewares])
    THEN AdvanceMw(r, q, i, D)
    ELSE AdvanceLookup(r, q, i, D)

\* A dispatcher that admits a call only when no other call is in progress.
FreeWhenQuiet(r) ==
    /\ rq[r].pc \in {"idle", "done"}
    /\ \A r2 \in Reqs \ {r} : rq[r2].pc \notin {"mw", "handler"}

\* No call of fetch occupies slot r: none was made yet, or it has ended and its
\* Context is garbage.
Free(r) == rq[r].pc \in {"idle", "done"}

\* fetch(req) on App a (lines 93-98), then the loop up to the first await.  The
\* call takes the lowest free slot.
Fetch(r, a, url, method) ==
    /\ Free(r)
    /\ \A r0 \in Reqs : r0 < r => ~Free(r0)
    /\ a \in DOMAIN apps
    /\ Advance(r, [Idle EXCEPT !.app = a, !.url = url, !.method = method,
                               !.data = NewData(r),
                               !.state = ContextState(apps[a]),
                               !.had = Len(used)],
               1, [dataHeap EXCEPT ![NewData(r)] = 0])
    /\ UNCHANGED <<apps, routes, mws, stateHeap, registered, used, given>>

\* The awaited middleware resumes and settles (the second half of wait, of inc,
\* which then writes c.state.n, of reg, which then calls get, and of late,
\* which then fails and fetch with it).
MwResume(r) ==
    /\ rq[r].pc = "mw"
    /\ rq[r].status = "pending"
    /\ rq[r].local < MaxN
    /\ stateHeap' = IF rq[r].ran[rq[r].idx] = "inc"
                    THEN [stateHeap EXCEPT ![rq[r].state] = rq[r].local + 1]
                    ELSE stateHeap
    /\ routes' = IF rq[r].ran[rq[r].idx] = "reg"
                 THEN [routes EXCEPT ![apps[rq[r].app].routes] =
                          AddRoute(@, "GET", PX, "h2")]
                 ELSE routes
    /\ registered' = IF rq[r].ran[rq[r].idx] = "reg"
                     THEN (<<PX, "GET">> :> "h2") @@ registered
                     ELSE registered
    /\ rq' = [rq EXCEPT ![r] =
          IF rq[r].ran[rq[r].idx] = "late"
          THEN AfterMw(rq[r], rq[r].idx, 0, "rejected")
          ELSE [AfterMw(rq[r], rq[r].idx, 0, "fulfilled") EXCEPT !.fin = @ + 1]]
    /\ UNCHANGED <<apps, mws, dataHeap, used, given>>

\* The loop without its await.
ResumableAlways(q) == TRUE

\* await (line 102): fetch goes on once the promise is fulfilled.
Resumable(q) == q.status = "fulfilled"

\* fetch resumes from the await of line 102.
Continue(r) ==
    /\ rq[r].pc = "mw"
    /\ Resumable(rq[r])
    /\ Advance(r, rq[r], rq[r].idx + 1, dataHeap)
    /\ UNCHANGED <<apps, routes, mws, stateHeap, registered, used, given>>

\* The awaited handler resumes and settles, and fetch with it (line 112).
HandlerResume(r) ==
    /\ rq[r].pc = "handler"
    /\ LET q == rq[r]
           made == HandlerResponse(q.handler, dataHeap[q.data], stateHeap[q.state])
       IN rq' = [rq EXCEPT ![r] =
             IF q.handler = "hx"
             THEN [q EXCEPT !.pc = "done", !.status = "rejected", !.outcome = "error"]
             ELSE [q EXCEPT !.pc = "done", !.status = "fulfilled",
                            !.resp = made, !.outcome = "response",
                            !.produced = HandlerResponse(q.want, dataHeap[q.data],
                                                         stateHeap[q.state])]]
    /\ UNCHANGED <<apps, routes, mws, stateHeap, dataHeap, registered, used, given>>

\* ------------------------------------------------------- specifications

\* One App serving one request while the host registers handlers and middleware
\* at any moment, before and during the request.  The handlers are the two that
\* respond; a failing handler is part of SpecConc.
Next ==
    \/ \E mw \in {"tag", "boom"} : Use(1, mw)
    \/ \E h \in {"h1", "h2"} : Get(1, PX, h)
    \/ \E h \in {"h1", "h2"} : Post(1, PX, h)
    \/ \E h \in {"h1", "h2"} : Put(1, PX, h)
    \/ \E h \in {"h1", "h2"} : Delete(1, PX, h)
    \/ \E h \in {"h1", "h2"} : All(1, PX, h)
    \/ \E u \in Urls, m \in ReqMethods : Fetch(1, 1, u, m)
    \/ Continue(1)
    \/ HandlerResume(1)

Spec == Init /\ [][Next]_vars

\* One App serving MaxReqs requests that interleave at their awaits, while the
\* host appends middleware and registers the handler of GET /x.
NextConc ==
    \/ \E mw \in {"tag", "wait", "boom"} : Use(1, mw)
    \/ \E h \in {"h2", "hx"} : Get(1, PX, h)
    \/ \E r \in Reqs : Fetch(r, 1, PX, "GET")
    \/ \E r \in Reqs : MwResume(r)
    \/ \E r \in Reqs : Continue(r)
    \/ \E r \in Reqs : HandlerResume(r)

SpecConc == Init /\ [][NextConc]_vars

\* No call of fetch is in progress.
Quiet == \A r \in Reqs : Free(r)

\* Apps rebound with withState, each registering, written to and serving its
\* requests one after the other.
NextState ==
    \/ \E a \in AppIds, s \in {1, HostState} : WithState(a, s)
    \/ \E a \in AppIds : Use(a, "inc")
    \/ \E a \in AppIds : Get(a, PX, "h1")
    \/ \E a \in AppIds : HostWrite(a)
    \/ \E r \in Reqs, a \in AppIds : Quiet /\ Fetch(r, a, PX, "GET")
    \/ \E r \in Reqs : MwResume(r)
    \/ \E r \in Reqs : Continue(r)

SpecState == Init /\ [][NextState]_vars

\* One App whose MaxReqs requests interleave at their awaits and read and write
\* its state, while the host appends middleware, registers the handler of GET /x
\* and replaces the App's state by an object of its own.
NextShared ==
    \/ \E mw \in {"tag", "inc"} : Use(1, mw)
    \/ Get(1, PX, "h1")
    \/ HostAssign(1, HostState)
    \/ \E r \in Reqs : rq[r].pc = "idle" /\ Fetch(r, 1, PX, "GET")
    \/ \E r \in Reqs : MwResume(r)
    \/ \E r \in Reqs : Continue(r)

SpecShared == Init /\ [][NextShared]_vars

\* One App serving one request at a time, of targets and methods that differ
\* from the registered /x and GET in case, slash and query; /X may be registered
\* too.
NextMatch ==
    \/ Use(1, "tag")
    \/ Get(1, PX, "h1")
    \/ Get(1, PUpper, "h2")
    \/ \E u \in MatchUrls, m \in MatchMethods : Fetch(1, 1, u, m)
    \/ Continue(1)
    \/ HandlerResume(1)

SpecMatch == Init /\ [][NextMatch]_vars

\* One App serving MaxReqs requests while the host registers h1 for GET /x and
\* appends middleware, among them reg, which registers h2 for GET /x itself,
\* and late, which fails after its await.
NextLive ==
    \/ \E mw \in {"tag", "reg", "late"} : Use(1, mw)
    \/ Get(1, PX, "h1")
    \/ \E r \in Reqs : rq[r].pc = "idle" /\ Fetch(r, 1, PX, "GET")
    \/ \E r \in Reqs : MwResume(r)
    \/ \E r \in Reqs : Continue(r)
    \/ \E r \in Reqs : HandlerResume(r)

SpecLive == Init /\ [][NextLive]_vars

\* One App serving MaxReqs requests whose awaited middleware and handlers all
\* settle in the end: the event loop runs every continuation that is ready.
NextFair ==
    \/ \E mw \in {"wait", "boom"} : Use(1, mw)
    \/ \E h \in {"h2", "hx"} : Get(1, PX, h)
    \/ \E r \in Reqs : rq[r].pc = "idle" /\ Fetch(r, 1, PX, "GET")
    \/ \E r \in Reqs : MwResume(r)
    \/ \E r \in Reqs : Continue(r)
    \/ \E r \in Reqs : HandlerResume(r)

Fairness ==
    \A r \in Reqs :
        /\ WF_vars(MwResume(r))
        /\ WF_vars(Continue(r))
        /\ WF_vars(HandlerResume(r))

SpecFair == Init /\ [][NextFair]_vars /\ Fairness

\* One App whose handlers are registered by all only, serving MaxReqs requests
\* of the first and the last method all registers, which interleave with the
\* registrations.
NextAll ==
    \/ Use(1, "wait")
    \/ \E h \in {"h1", "h2"} : All(1, PX, h)
    \/ \E r \in Reqs, m \in {"GET", "DELETE"} : rq[r].pc = "idle" /\ Fetch(r, 1, PX, m)
    \/ \E r \in Reqs : MwResume(r)
    \/ \E r \in Reqs : Continue(r)
    \/ \E r \in Reqs : HandlerResume(r)

SpecAll == Init /\ [][NextAll]_vars

\* ----------------------------------------------------------------- claims

Range(f) == {f[i] : i \in DOMAIN f}

\* A middleware of the call in slot r failed.
MwFailed(q) == "boom" \in Range(q.ran)

\* The Map and the array App a holds.
RoutesOf(a) == routes[apps[a].routes]
PipelineOf(a) == mws[apps[a].middlewares]

\* C1: a fetch whose middleware all completed and whose path and method have a
\* registered handler at the route lookup invokes that handler, and the
\* Response it returns is the one that handler produced, unchanged.
C1_RegisteredHandlerServes ==
    \A r \in Reqs :
        LET q == rq[r]
        IN (q.looked /\ q.want # "") =>
              /\ q.handler = q.want
              /\ (q.pc = "done" /\ q.want # "hx") => q.outcome = "response"
              /\ q.outcome = "response" =>
                    /\ q.resp = q.produced
                    /\ q.resp.text = q.want
                    /\ q.resp.status = IF q.want = "h1" THEN 200 ELSE 201

\* A PUT of /x?q was served by h2 after two middleware ran.
C1_Witness ==
    /\ rq[1].looked /\ rq[1].want = "h2" /\ rq[1].outcome = "response"
    /\ rq[1].method = "PUT" /\ rq[1].url = <<"/", "x", "?", "q">>
    /\ Len(rq[1].ran) = 2 /\ rq[1].resp.t = 1

\* C2 (amended): a fetch none of whose middleware failed and whose path and
\* method have no registered handler at the route lookup returns status 404
\* with body "Not Found", whatever the middleware wrote, and invokes no handler.
C2_UnregisteredIs404 ==
    \A r \in Reqs :
        LET q == rq[r]
        IN /\ (q.looked /\ q.want = "") =>
                 /\ q.pc = "done" /\ q.outcome = "response"
                 /\ q.resp.status = 404 /\ q.resp.text = "Not Found"
                 /\ q.handler = ""
           /\ (q.pc = "done" /\ ~MwFailed(q)) => q.looked

\* PATCH /x got the 404 after a middleware wrote to scratch, with GET /x registered.
C2_Witness ==
    /\ rq[1].pc = "done" /\ rq[1].looked /\ rq[1].want = ""
    /\ rq[1].method = "PATCH" /\ rq[1].url = PX
    /\ Registered(PX, "GET") # ""
    /\ "tag" \in Range(rq[1].ran) /\ dataHeap[rq[1].data] = 1
    /\ rq[1].resp.status = 404

\* C2 as stated: every finished fetch of a never registered path and method
\* returned the 404.
C2_Original ==
    \A r \in Reqs :
        LET q == rq[r]
        IN (q.pc = "done" /\ Registered(Pathname(q.url), q.method) = "") =>
              /\ q.outcome = "response"
              /\ q.resp.status = 404 /\ q.resp.text = "Not Found"
              /\ q.handler = ""

\* The middleware a call started are the first ones passed to use, in that
\* order, each once; at most the last started is unsettled; the route lookup
\* and the handler come after all of them settled.
InOrder(q) ==
    /\ Len(q.ran) <= Len(used)
    /\ q.ran = SubSeq(used, 1, Len(q.ran))
    /\ q.fin \in {Len(q.ran) - 1, Len(q.ran)}
    /\ (q.looked \/ q.handler # "") => q.fin = Len(q.ran)

\* C3 (amended): within one fetch the middleware that run are started in the
\* order of their use() calls, each at most once and each only after the one
\* before it completed, and the handler starts only after the last completed;
\* when none fails, every middleware registered by the route lookup has run
\* exactly once, and after a failing one none runs.  Other requests in flight
\* do not change this.
C3_MiddlewareInOrder ==
    \A r \in Reqs :
        LET q == rq[r]
        IN /\ InOrder(q)
           /\ q.looked => (q.ran = SubSeq(used, 1, q.due) /\ ~MwFailed(q))
           /\ MwFailed(q) => (q.pc = "done" /\ q.ran[Len(q.ran)] = "boom" /\ ~q.looked)

\* Slot 1 awaits its handler after two middleware while slot 2 awaits its first.
C3_Witness ==
    /\ rq[1].pc = "handler" /\ Len(rq[1].ran) = 2
    /\ rq[2].pc = "mw" /\ Len(rq[2].ran) = 1 /\ rq[2].status = "pending"

\* C3 as stated: besides the order, every middleware registered when fetch was
\* called has run by the time the fetch has ended.
C3_Original ==
    \A r \in Reqs :
        LET q == rq[r]
        IN /\ InOrder(q)
           /\ q.pc = "done" => Len(q.ran) >= q.had

\* C4: each call of fetch in progress has a data object no other call in
\* progress has, empty until a middleware of that very call writes to it; what
\* a handler reads from scratch was written by its own request.
C4_ScratchPerRequest ==
    /\ \A r1, r2 \in Reqs :
          (r1 # r2 /\ ~Free(r1) /\ ~Free(r2)) => rq[r1].data # rq[r2].data
    /\ \A r \in Reqs :
          LET q == rq[r]
          IN /\ ~Free(r) =>
                   dataHeap[q.data] = IF "tag" \in Range(q.ran) THEN r ELSE 0
             /\ (q.outcome = "response" /\ q.handler # "") =>
                   q.resp.t = IF "tag" \in Range(q.ran) THEN r ELSE 0

\* Two calls in progress, each with its own value in its scratch.
C4_Witness ==
    /\ ~Free(1) /\ ~Free(2)
    /\ dataHeap[rq[1].data] = 1 /\ dataHeap[rq[2].data] = 2
    /\ rq[1].pc = "handler" /\ rq[2].pc = "mw"

\* C5: every App holds the one Map and the one array that hold all the
\* registrations made through any App, no more and no fewer, and each fetch,
\* on whichever App, runs that pipeline and invokes the handler of the latest
\* registration.
C5_SharedRegistryAndPipeline ==
    /\ \A a \in DOMAIN apps :
          /\ PipelineOf(a) = used
          /\ \A k \in DOMAIN registered :
                /\ HasRoute(RoutesOf(a), k[1], k[2])
                /\ GetRoute(RoutesOf(a), k[1], k[2]) = registered[k]
          /\ \A p \in DOMAIN RoutesOf(a) : \A m \in DOMAIN RoutesOf(a)[p] :
                <<p, m>> \in DOMAIN registered
    /\ \A r \in Reqs :
          rq[r].looked => (rq[r].handler = rq[r].want
                           /\ rq[r].ran = SubSeq(used, 1, rq[r].due))

\* A fetch on the third App of a chain of withState calls ran two middleware
\* and was served by the registered handler.
C5_Witness ==
    /\ Len(apps) = 3 /\ given[3].from = 2 /\ given[2].from = 1
    /\ rq[1].app = 3 /\ rq[1].looked /\ rq[1].handler = "h1"
    /\ Len(rq[1].ran) = 2

\* The call in slot r writes its App's state in this step (the second half of inc).
WritesState(r) ==
    /\ rq[r].pc = "mw" /\ rq[r].status = "pending"
    /\ rq'[r].status = "fulfilled"

\* App b was made by withState from App a, or a from b.
Rebound(a, b) == given[b].from = a \/ given[a].from = b

\* C6 (amended): after b = a.withState(newState), b's state is the object
\* passed and every Context of b carries it; when that object is not the one
\* that is a's state, a write to a's state, by a request dispatched through a
\* or by the host, leaves b's state as it was, and so what b's handlers read
\* from it; and the other way round.
C6_StatesApart ==
    /\ [](/\ \A b \in DOMAIN apps : given[b].from # 0 => apps[b].state = given[b].state
          /\ \A r \in Reqs : ~Free(r) => rq[r].state = apps[rq[r].app].state)
    /\ [][/\ \A a, b \in DOMAIN apps :
                (/\ Rebound(a, b)
                 /\ given[a].state # given[b].state
                 /\ stateHeap'[apps[a].state] # stateHeap[apps[a].state])
                => stateHeap'[apps[b].state] = stateHeap[apps[b].state]
          /\ \A r \in Reqs :
                (rq'[r] # rq[r] /\ rq'[r].looked /\ rq'[r].handler = "h1")
                => rq'[r].resp.n = stateHeap[apps[rq'[r].app].state]
         ]_vars

\* App 2 was rebound from App 1 with a state object of its own; App 1's state was
\* counted up to 2 and a request through App 2 still read 0.
C6_Witness ==
    /\ Len(apps) >= 2 /\ given[2].from = 1 /\ given[2].state = HostState
    /\ stateHeap[apps[1].state] = 2 /\ stateHeap[apps[2].state] = 0
    /\ rq[1].app = 2 /\ rq[1].handler = "h1" /\ rq[1].resp.n = 0
    /\ Len(rq[1].ran) = 2

\* C6 as stated: a write to the state of an App by one of its requests never
\* changes the state of an App rebound from it or it was rebound from.
C6_Original ==
    [][\A r \in Reqs : \A b \in DOMAIN apps :
          (WritesState(r) /\ Rebound(rq[r].app, b))
          => stateHeap'[apps[b].state] = stateHeap[apps[b].state]
      ]_vars

\* C7: the Map holds one handler per registered path and method, the one of
\* the latest registration, and each route lookup invokes that one: a replaced
\* handler is invoked by no lookup after its replacement.
C7_LatestRegistrationWins ==
    /\ \A p \in DOMAIN RoutesOf(1) : \A m \in DOMAIN RoutesOf(1)[p] :
          RoutesOf(1)[p][m] = Registered(p, m)
    /\ \A k \in DOMAIN registered : HasRoute(RoutesOf(1), k[1], k[2])
    /\ \A r \in Reqs : rq[r].looked => rq[r].handler = rq[r].want

\* The handler h2 of GET /x, invoked by the call in slot 1, is still running;
\* GET /x was registered again with hx, and the later lookup of slot 2 invoked hx.
C7_Witness ==
    /\ rq[1].pc = "handler" /\ rq[1].handler = "h2"
    /\ Registered(PX, "GET") = "hx"
    /\ rq[2].pc = "handler" /\ rq[2].handler = "hx"

\* C8: a call all(path, h) leaves the Map as the four calls delete, put, post
\* and get of (path, h) leave it: h under GET, POST, PUT and DELETE, whatever
\* was there before, and nothing bound or unbound under another method; a
\* route lookup invokes the handler so registered, and one of a method that
\* none of the four is ends in the 404.
C8_AllIsFourRegistrations ==
    /\ [][\A h \in Handlers :
             All(1, PX, h) =>
                LET before == RoutesOf(1)
                    after == routes'[apps[1].routes]
                IN /\ \A m \in RegMethods :
                         HasRoute(after, PX, m) /\ GetRoute(after, PX, m) = h
                   /\ DOMAIN after[PX] = RegMethods
                   /\ \A p \in DOMAIN before : p # PX => after[p] = before[p]
                   /\ after = AddRoute(AddRoute(AddRoute(AddRoute(before,
                                 "DELETE", PX, h), "PUT", PX, h), "POST", PX, h),
                                 "GET", PX, h)
         ]_vars
    /\ [](\A r \in Reqs :
             rq[r].looked =>
                /\ rq[r].handler = rq[r].want
                /\ rq[r].method \notin RegMethods =>
                      (rq[r].handler = "" /\ rq[r].resp.status = 404))

\* h1 is registered under the four methods of /x, a DELETE of /x was served by
\* it and nothing is bound under PATCH.
C8_Witness ==
    /\ \A m \in RegMethods : Registered(PX, m) = "h1"
    /\ rq[1].method = "DELETE" /\ rq[1].handler = "h1"
    /\ rq[1].outcome = "response" /\ rq[1].resp.text = "h1"
    /\ ~HasRoute(RoutesOf(1), PX, "PATCH")

\* C9: a call whose middleware or handler failed has ended with the failure
\* and no Response; after a failing middleware no middleware and no handler of
\* the call ran; a call that has ended does not run again; and the step in
\* which a call fails changes neither the Map, the array, a state nor another
\* call or its scratch.
C9_FailurePropagates ==
    /\ [](\A r \in Reqs :
             LET q == rq[r]
             IN /\ (MwFailed(q) \/ (q.pc = "done" /\ q.handler = "hx")) =>
                      (q.pc = "done" /\ q.outcome = "error")
                /\ q.outcome = "error" =>
                      (q.pc = "done" /\ q.resp = NoResponse
                       /\ (MwFailed(q) \/ q.handler = "hx"))
                /\ MwFailed(q) =>
                      (q.ran[Len(q.ran)] = "boom" /\ q.handler = "" /\ ~q.looked
                       /\ Len(q.ran) = q.idx))
    /\ [][\A r \in Reqs :
             /\ (rq[r].pc = "done" /\ rq'[r] # rq[r]) => rq'[r].idx = 1
             /\ (rq'[r] # rq[r] /\ rq'[r].outcome = "error") =>
                   /\ routes' = routes /\ mws' = mws /\ stateHeap' = stateHeap
                   /\ \A r2 \in Reqs \ {r} :
                         /\ rq'[r2] = rq[r2]
                         /\ dataHeap'[rq[r2].data] = dataHeap[rq[r2].data]
         ]_vars

\* The call in slot 2 failed in the first of two middleware while the call in
\* slot 1 awaits its handler with its scratch written; another call has failed
\* in its handler before.
C9_Witness ==
    /\ used = <<"boom", "tag">>
    /\ rq[2].pc = "done" /\ rq[2].outcome = "error" /\ rq[2].ran = <<"boom">>
    /\ rq[1].pc = "handler" /\ rq[1].handler = "hx"

\* C10: the route lookup of a fetch comes after every middleware registered by
\* then has run and settled, whether or not a route matches; while a
\* middleware is awaited there is no Response; a fetch that has ended without
\* a failing middleware has made the lookup, and the Response it returns is
\* the 404 when no handler is registered and the handler's otherwise.
C10_MiddlewareBeforeLookup ==
    \A r \in Reqs :
        LET q == rq[r]
        IN /\ q.looked =>
                 /\ q.ran = SubSeq(used, 1, q.due)
                 /\ q.fin = q.due
                 /\ ~MwFailed(q)
           /\ q.pc = "mw" => (~q.looked /\ q.outcome = "" /\ q.resp = NoResponse)
           /\ (q.pc \in {"handler", "done"} /\ ~MwFailed(q)) => q.looked
           /\ q.outcome = "response" =>
                 /\ q.looked
                 /\ q.resp = IF q.want = "" THEN NotFound ELSE q.produced

\* A fetch with no route ran both middleware and then returned the 404.
C10_Witness ==
    /\ rq[1].pc = "done" /\ rq[1].looked /\ rq[1].want = ""
    /\ rq[1].ran = <<"tag", "tag">> /\ rq[1].resp.status = 404

\* Every call in progress carries the state object its App holds.
Agree == \A r \in Reqs : ~Free(r) => rq[r].state = apps[rq[r].app].state

\* C11 (amended): the Context of a call carries the object that is the App's
\* state at the call and carries it to the end of the call; so long as the
\* field state of the App is not assigned, all calls in progress carry the same
\* object, the App's state, and what one of them writes to it is what every
\* other one reads from then on.
C11_StateShared ==
    [][/\ \A r \in Reqs :
             /\ (Free(r) /\ rq'[r] # rq[r]) =>
                   rq'[r].state = apps[rq'[r].app].state
             /\ (~Free(r) /\ rq'[r] # rq[r]) => rq'[r].state = rq[r].state
             /\ WritesState(r) =>
                   \A r2 \in Reqs :
                      (~Free(r2) /\ rq[r2].app = rq[r].app /\ Agree) =>
                         stateHeap'[rq'[r2].state] = rq[r].local + 1
             /\ (rq'[r] # rq[r] /\ rq'[r].status = "pending") =>
                   rq'[r].local = stateHeap[rq'[r].state]
       /\ (Agree /\ apps' = apps) =>
             \A r \in Reqs : rq'[r].pc \in {"mw", "handler"} =>
                rq'[r].state = apps'[rq'[r].app].state
      ]_vars

\* Two calls in progress on the one state object; the call in slot 1 counted it
\* up to 1 while the call in slot 2 stood before inc, and inc of slot 2 read 1.
C11_Witness ==
    /\ used = <<"tag", "inc">> /\ Agree
    /\ rq[1].pc = "mw" /\ rq[1].idx = 2 /\ rq[1].status = "fulfilled"
    /\ rq[2].pc = "mw" /\ rq[2].idx = 2 /\ rq[2].status = "pending"
    /\ rq[2].local = 1 /\ stateHeap[rq[1].state] = 1

\* C11 as stated: at every moment every call in progress carries its App's state.
C11_Original == Agree

\* C12: a call keeps the one data object and the one state object of its
\* Context from the first middleware to the handler; what a middleware of the
\* call wrote to scratch is what its handler reads there, a middleware's write
\* to state goes to that state object, and a later middleware and the handler
\* read that object as it then is.
C12_SameContext ==
    /\ [](\A r \in Reqs :
             (rq[r].handler = "h1" /\ rq[r].outcome = "response") =>
                rq[r].resp.t = IF "tag" \in Range(rq[r].ran) THEN r ELSE 0)
    /\ [][\A r \in Reqs :
             /\ (~Free(r) /\ rq'[r] # rq[r]) =>
                   (rq'[r].data = rq[r].data /\ rq'[r].state = rq[r].state)
             /\ WritesState(r) =>
                   stateHeap' = [stateHeap EXCEPT ![rq[r].state] = rq[r].local + 1]
             /\ (rq'[r] # rq[r] /\ rq'[r].status = "pending") =>
                   rq'[r].local = stateHeap[rq'[r].state]
             /\ (rq'[r] # rq[r] /\ rq'[r].handler = "h1") =>
                   /\ rq'[r].resp.n = stateHeap[rq'[r].state]
                   /\ rq'[r].resp.t = dataHeap'[rq'[r].data]
         ]_vars

\* The only call ran tag and inc, and its handler read both writes.
C12_Witness ==
    /\ rq[1].ran = <<"tag", "inc">> /\ rq[1].handler = "h1"
    /\ rq[1].outcome = "response" /\ rq[1].resp.t = 1 /\ rq[1].resp.n = 1
    /\ rq[2].pc = "idle"

C14_NoLocking ==
    /\ [](\A r \in Reqs :
             /\ (rq[r].pc = "idle" /\ \A r0 \in Reqs : r0 < r => rq[r0].pc \in {"mw", "handler"})
                   => ENABLED Fetch(r, 1, PX, "GET")
             /\ (rq[r].pc = "mw" /\ rq[r].status = "pending" /\ rq[r].local < MaxN)
                   => ENABLED MwResume(r)
             /\ (rq[r].pc = "mw" /\ rq[r].status = "fulfilled")
                   => ENABLED Continue(r))
    /\ [][\A r \in Reqs :
             WritesState(r) =>
                stateHeap'[rq[r].state] = rq[r].local + 1
         ]_vars

\* Both calls ran inc to its end on the same state object, which went from 0 to
\* 1: one of the two updates is lost.
C14_Witness ==
    /\ used = <<"inc">>
    /\ rq[1].pc = "mw" /\ rq[1].ran = <<"inc">> /\ rq[1].fin = 1
    /\ rq[2].pc = "mw" /\ rq[2].ran = <<"inc">> /\ rq[2].fin = 1
    /\ rq[1].state = rq[2].state /\ stateHeap[rq[1].state] = 1

\* The call in slot r makes its route lookup in this step.
LooksUp(r) == rq'[r] # rq[r] /\ rq'[r].looked /\ rq[r].pc # "handler"

\* C15: a call makes its route lookup in a step of its own, after the last
\* middleware of the array has settled, and invokes the handler the Map holds
\* for its path and method in that step, which is the one of the latest
\* registration by the host or by a middleware, also when that registration
\* came while the call was suspended; before that step it has invoked none.
C15_LookupReadsLiveRegistry ==
    /\ [](\A r \in Reqs : rq[r].pc = "mw" => (rq[r].handler = "" /\ ~rq[r].looked))
    /\ [][\A r \in Reqs :
             LooksUp(r) =>
                /\ rq'[r].ran = used /\ rq'[r].fin = Len(used)
                /\ rq'[r].handler = Registered(PX, "GET")
                /\ HasRoute(RoutesOf(1), PX, "GET") =>
                      rq'[r].handler = GetRoute(RoutesOf(1), PX, "GET")
                /\ routes' = routes
         ]_vars

\* The only call so far was suspended in reg, which registered h2 (the host
\* registers h1 only), and then invoked h2.
C15_Witness ==
    /\ rq[2].pc = "idle"
    /\ rq[1].ran = <<"tag", "reg">> /\ rq[1].handler = "h2"
    /\ rq[1].want = "h2" /\ rq[1].pc = "handler"

\* C16 (amended): the loop reads the array as it is at each turn: a call runs
\* the middleware appended while it was suspended in one, after those appended
\* before it, provided no middleware of the call fails before its turn, and
\* makes its route lookup only when all the array holds by then have settled;
\* after a failing middleware the call runs none, appended or not.
C16_PipelineIteratedLive ==
    /\ [](\A r \in Reqs :
             LET q == rq[r]
             IN /\ InOrder(q)
                /\ q.handler # "" => q.looked
                /\ q.looked =>
                      (q.due >= q.had /\ q.ran = SubSeq(used, 1, q.due) /\ q.fin = q.due)
                /\ q.outcome = "error" =>
                      (q.handler = "hx" \/ q.ran[Len(q.ran)] \in {"late", "boom"}))
    /\ [][\A r \in Reqs :
             /\ LooksUp(r) => rq'[r].ran = used
             /\ (rq[r].pc = "mw" /\ rq[r].status = "fulfilled" /\ rq'[r] # rq[r]
                 /\ rq[r].idx < Len(used)) =>
                   rq'[r].ran = Append(rq[r].ran, used[rq[r].idx + 1])
         ]_vars

\* A call made with one middleware in the array ran a second one, appended
\* while it was suspended, and invoked its handler after both.
C16_Witness ==
    /\ rq[1].had = 1 /\ rq[1].ran = <<"reg", "tag">> /\ rq[1].fin = 2
    /\ rq[1].looked /\ rq[1].handler = "h2"

\* C16 as stated: a call that leaves its middleware for its end has run every
\* middleware appended while it was suspended.
C16_Original ==
    [][\A r \in Reqs :
          (rq[r].pc = "mw" /\ rq'[r].pc = "done" /\ Len(used) > rq[r].had) =>
             Len(rq'[r].ran) = Len(used)
      ]_vars

\* The handler the Map rt holds for the path and the method, "" when none.
Binding(rt, path, method) ==
    IF HasRoute(rt, path, method) THEN GetRoute(rt, path, method) ELSE ""

\* The pairs whose handler differs between the Map before and after the step.
ChangedPairs ==
    {k \in (DOMAIN RoutesOf(1) \cup DOMAIN routes'[apps[1].routes] \cup {PRoot, PX})
            \X ReqMethods :
        Binding(routes'[apps[1].routes], k[1], k[2]) # Binding(RoutesOf(1), k[1], k[2])}

\* C17: a step that changes the array appends one middleware to it and
\* changes neither the Map, nor a state, nor a call; a step that changes the
\* Map is a registration: it changes the handler of one pair, or is a call of
\* all, and changes neither the array, nor a state, nor a call; a step of
\* fetch changes none of the Map, the array, the App and its state.
C17_RegistrationFrame ==
    [][/\ mws' # mws =>
             /\ \E mw \in Middlewares :
                   mws' = [mws EXCEPT ![apps[1].middlewares] = Append(@, mw)]
             /\ routes' = routes /\ stateHeap' = stateHeap /\ apps' = apps
             /\ rq' = rq /\ dataHeap' = dataHeap
       /\ routes' # routes =>
             /\ \/ Cardinality(ChangedPairs) = 1
                \/ \E h \in Handlers : All(1, PX, h)
             /\ \A i \in AppIds : i # apps[1].routes => routes'[i] = routes[i]
             /\ mws' = mws /\ stateHeap' = stateHeap /\ apps' = apps
             /\ rq' = rq /\ dataHeap' = dataHeap
       /\ \A m \in RegMethods, h \in Handlers :
             Register(1, m, PX, h) =>
                /\ Binding(routes'[apps[1].routes], PX, m) = h
                /\ ChangedPairs \subseteq {<<PX, m>>}
       /\ rq' # rq =>
             (routes' = routes /\ mws' = mws /\ stateHeap' = stateHeap /\ apps' = apps)
      ]_vars

\* Two handlers registered one by one under two methods of /x, a third method
\* unbound, two middleware appended, and a call awaiting its handler.
C17_Witness ==
    /\ Registered(PX, "GET") = "h2" /\ Registered(PX, "POST") = "h1"
    /\ ~HasRoute(RoutesOf(1), PX, "PUT")
    /\ PipelineOf(1) = <<"tag", "boom">>
    /\ rq[1].pc = "handler" /\ rq[1].handler = "h2"

\* C18: a call invokes no handler before its route lookup and one at most in
\* it, which it keeps and awaits once; a call that has ended has either one
\* Response or the failure, and does nothing more; and every call ends, when
\* the middleware and the handler it awaits settle and the array is bounded.
C18_EndsOnce ==
    /\ [](\A r \in Reqs :
             /\ rq[r].pc = "mw" => (rq[r].handler = "" /\ ~rq[r].looked)
             /\ rq[r].pc = "handler" => (rq[r].handler # "" /\ rq[r].looked)
             /\ rq[r].pc = "done" =>
                   \/ rq[r].outcome = "response" /\ rq[r].resp # NoResponse
                   \/ rq[r].outcome = "error" /\ rq[r].resp = NoResponse)
    /\ [][\A r \in Reqs :
             /\ (rq[r].pc = "handler" /\ rq'[r] # rq[r]) =>
                   (rq'[r].pc = "done" /\ rq'[r].handler = rq[r].handler)
             /\ (rq[r].pc = "mw" /\ rq'[r].handler # "") => LooksUp(r)
             /\ rq[r].pc = "done" => rq'[r] = rq[r]
         ]_vars
    /\ \A r \in Reqs : (rq[r].pc \in {"mw", "handler"}) ~> (rq[r].pc = "done")

\* One call ended with the Response of h2 after two awaited middleware, the
\* other with the failure of its handler.
C18_Witness ==
    /\ rq[1].pc = "done" /\ rq[1].ran = <<"wait", "wait">>
    /\ rq[1].handler = "h2" /\ rq[1].outcome = "response" /\ rq[1].resp.status = 201
    /\ rq[2].pc = "done" /\ rq[2].outcome = "error" /\ rq[2].handler = "hx"

\* C19: with handlers registered by all only, the Map holds in every state
\* either no handler for the path or one handler under all four methods: the
\* four registrations of a call of all are one step, in which no call of fetch
\* moves, so a route lookup never finds the path bound to a handler under some
\* of the four methods only, and invokes the handler all four are bound to.
C19_AllAtomic ==
    /\ [](\/ \A m \in RegMethods : ~HasRoute(RoutesOf(1), PX, m)
          \/ \E h \in Handlers :
                \A m \in RegMethods : Binding(RoutesOf(1), PX, m) = h)
    /\ [][/\ routes' # routes => rq' = rq
          /\ \A r \in Reqs :
                LooksUp(r) =>
                   /\ routes' = routes
                   /\ \A m \in RegMethods :
                         Binding(RoutesOf(1), PX, m) = rq'[r].handler
         ]_vars

\* A DELETE was served by h1; then all registered h2 while a GET was suspended
\* in a middleware, and the GET invoked h2.
C19_Witness ==
    /\ rq[1].method = "DELETE" /\ rq[1].handler = "h1" /\ rq[1].pc = "done"
    /\ rq[2].method = "GET" /\ rq[2].handler = "h2" /\ rq[2].pc = "handler"
    /\ rq[2].ran = <<"wait">>

====
